---- MODULE Spec2Model ----
(***************************************************************************)
(* Sudoku generator and solver (sudoko.cpp): the constraint checker, the   *)
(* backtracking solver / filler, the bounded solution counter and the      *)
(* carving generator.                                                      *)
(*                                                                         *)
(* The board is modelled for a box of BoxSize x BoxSize cells, N =         *)
(* BoxSize^2 digits and N x N cells.  The source fixes the box at 3 (N =   *)
(* 9, 81 cells); every definition below reduces to the source's text at    *)
(* BoxSize = 3.  The clue ranges of generatePuzzle, which the source gives *)
(* for 81 cells, are scaled to the N x N board in proportion.              *)
(***************************************************************************)
EXTENDS Integers, Sequences, FiniteSets, TLC

\* ---------------------------------------------------------------- bounds
\* Side of a box (3 in the source: the literal 3 of usedInBox and isSafe).
BoxSize == 2
\* The inputs of the search routines are a solved board with at most
\* MaxEmpty cells cleared (fewer when a cell is overwritten as well).
MaxEmpty == 4
\* countSolutions is called with limit in 0..MaxLimit.
MaxLimit == 2
\* carveUnique's shuffled permutation: the next position is one of the
\* CellDraws lowest-numbered positions not yet visited.
CellDraws == 1
\* The orders shuffledDigits returns inside carveUnique's countSolutions
\* calls: each draw j = rand() % (i + 1) is one of the DigitDraws highest
\* of 0..i.  (The search routines run on their own take every order.)
DigitDraws == 1

\* ------------------------------------------------------ program constants
N == BoxSize * BoxSize
UNASSIGNED == 0
Cells == N * N
Digits == 1..N
Index == 0..(N - 1)

\* ------------------------------------------------------ constraint checker
usedInRow(g, row, num) == \E c \in Index : g[row][c] = num

usedInCol(g, col, num) == \E r \in Index : g[r][col] = num

usedInBox(g, boxStartRow, boxStartCol, num) ==
    \E r \in 0..(BoxSize - 1), c \in 0..(BoxSize - 1) :
        g[boxStartRow + r][boxStartCol + c] = num

\* A slip in the box origin: the box number instead of the box's first row.
isSafeBoxSlip(g, row, col, num) ==
    /\ ~usedInRow(g, row, num)
    /\ ~usedInCol(g, col, num)
    /\ ~usedInBox(g, row \div BoxSize, col \div BoxSize, num)
    /\ g[row][col] = UNASSIGNED

\* The box check left out.
isSafeNoBox(g, row, col, num) ==
    /\ ~usedInRow(g, row, num)
    /\ ~usedInCol(g, col, num)
    /\ g[row][col] = UNASSIGNED

isSafe(g, row, col, num) ==
    /\ ~usedInRow(g, row, num)
    /\ ~usedInCol(g, col, num)
    /\ ~usedInBox(g, row - (row % BoxSize), col - (col % BoxSize), num)
    /\ g[row][col] = UNASSIGNED

\* ----------------------------------------------------------- grid utilities
RECURSIVE scanFrom(_, _)
scanFrom(g, p) ==
    IF p = Cells THEN [found |-> FALSE, row |-> N, col |-> N]
    ELSE IF g[p \div N][p % N] = UNASSIGNED
         THEN [found |-> TRUE, row |-> p \div N, col |-> p % N]
         ELSE scanFrom(g, p + 1)

RECURSIVE scanColumnsFrom(_, _)
scanColumnsFrom(g, p) ==
    IF p = Cells THEN [found |-> FALSE, row |-> N, col |-> N]
    ELSE IF g[p % N][p \div N] = UNASSIGNED
         THEN [found |-> TRUE, row |-> p % N, col |-> p \div N]
         ELSE scanColumnsFrom(g, p + 1)

\* The scan with its loops exchanged: column by column.
findUnassignedByColumn(g) == scanColumnsFrom(g, 0)

\* The first empty cell in row-major order, or found = FALSE.
findUnassigned(g) == scanFrom(g, 0)

swap(out, i, j) == [out EXCEPT ![i] = out[j], ![j] = out[i]]

\* The Fisher-Yates loop from index i down to 1: every order it can leave,
\* j = rand() % (i + 1) being any of the w highest of 0..i.
RECURSIVE shuffleFrom(_, _, _)
shuffleFrom(out, i, w) ==
    IF i = 0 THEN {out}
    ELSE UNION {shuffleFrom(swap(out, i, j), i - 1, w) :
                    j \in {j \in 0..i : j > i - w}}

\* Every order shuffledDigits can return.
shuffledDigits == shuffleFrom([i \in Index |-> i + 1], N - 1, N)

\* The orders taken inside carveUnique's countSolutions calls.
boundedDigits == shuffleFrom([i \in Index |-> i + 1], N - 1, DigitDraws)

\* The loop "for i: num = order[i]; if isSafe(num) ..." of a search node.
\* Entries of order that fail isSafe are passed over without effect, and
\* isSafe's answers at a node are the same every time the loop is at its
\* head (the cell is empty again and nothing before it has changed), so a
\* node keeps of order[0..i] the set `tried` of entries that passed isSafe.
\* nextOf(orders, safe, tried): the entries the loop can reach next, over
\* the orders whose earlier entries are unsafe or tried.
nextOf(orders, safe, tried) ==
    UNION {{o[i] : i \in
               {i \in Index :
                   /\ o[i] \in safe \ tried
                   /\ \A k \in 0..(i - 1) : o[k] \notin safe \ tried
                   /\ \A d \in tried : \E k \in 0..(i - 1) : o[k] = d}}
           : o \in orders}

\* doneOf(orders, safe, tried): some order has no entry left that passes
\* isSafe.
doneOf(orders, safe, tried) ==
    \E o \in orders :
        /\ \A k \in Index : o[k] \in safe => o[k] \in tried
        /\ \A d \in tried : \E k \in Index : o[k] = d

nextDigits ==
    [safe \in SUBSET Digits, tried \in SUBSET Digits |->
        nextOf(shuffledDigits, safe, tried)]

loopDone ==
    [safe \in SUBSET Digits, tried \in SUBSET Digits |->
        doneOf(shuffledDigits, safe, tried)]

nextBounded ==
    [safe \in SUBSET Digits, tried \in SUBSET Digits |->
        nextOf(boundedDigits, safe, tried)]

doneBounded ==
    [safe \in SUBSET Digits, tried \in SUBSET Digits |->
        doneOf(boundedDigits, safe, tried)]

safeDigits(g, row, col) == {num \in Digits : isSafe(g, row, col, num)}

\* ------------------------------------------------------------- input grids
Positions == 0..(Cells - 1)

EmptyGrid == [r \in Index |-> [c \in Index |-> UNASSIGNED]]

\* A solved board for every box size: row r is the first row rotated.
BaseGrid ==
    [r \in Index |-> [c \in Index |->
        ((BoxSize * (r % BoxSize) + (r \div BoxSize) + c) % N) + 1]]

clearAll(g, E) ==
    [r \in Index |-> [c \in Index |->
        IF (r * N + c) \in E THEN UNASSIGNED ELSE g[r][c]]]

ClearedSets(k) == {E \in SUBSET Positions : Cardinality(E) <= k}

\* The solved board with the cells of E cleared and one other cell
\* overwritten.
Overwritten(k) ==
    UNION {{[clearAll(BaseGrid, E) EXCEPT ![q \div N][q % N] = d] :
                q \in Positions \ E, d \in Digits}
            : E \in ClearedSets(k)}

\* The same, the overwriting digit being one that isSafe accepts there.
Misplaced(k) ==
    UNION {UNION {{[clearAll(BaseGrid, E) EXCEPT ![q \div N][q % N] = d] :
                      d \in safeDigits(clearAll(BaseGrid, E \cup {q}),
                                       q \div N, q % N)}
                  : q \in Positions \ E}
            : E \in ClearedSets(k)}

\* The grids handed to solveSudoku and countSolutions: the empty grid, the
\* solved board with some cells cleared (1, 2 or more completions), the same
\* with one cell overwritten (a duplicate), and duplicate-free boards with a
\* wrong digit (dead ends the search has to back out of).
InputGrids ==
    {EmptyGrid}
    \cup {clearAll(BaseGrid, E) : E \in ClearedSets(MaxEmpty)}
    \cup Overwritten(MaxEmpty - 2)
    \cup Misplaced(MaxEmpty - 1)

\* The grids handed to isSafe: boards with up to MaxEmpty - 1 cells cleared,
\* and the solved board with one cell overwritten.
ProbeGrids ==
    {EmptyGrid}
    \cup {clearAll(BaseGrid, E) : E \in ClearedSets(MaxEmpty - 1)}
    \cup {[BaseGrid EXCEPT ![q \div N][q % N] = d] : q \in Positions, d \in Digits}

\* ------------------------------------------------------------------- state
VARIABLES
    task,        \* the entry point that was called
    grid,        \* the array the running routine writes (out, work or tmp)
    start,       \* the grid as it was handed to the routine
    pc,          \* "call": a search call is at its first line;
                 \* "loop": the innermost call is at the head of its loop;
                 \* "ret": a call has just returned to the one above it
    stack,       \* the search calls that have chosen a cell, outermost first
    ret,         \* the value the last solveSudoku / fillGrid call returned
    count,       \* countSolutionsDFS's running count (cnt)
    limit,       \* countSolutions's limit
    gpc,         \* where generatePuzzle is: "fillGrid", "carve", "return"
    difficulty,  \* generatePuzzle's difficulty token
    clues,       \* generatePuzzle's clues
    toRemove,    \* carveUnique's toRemove
    removed,     \* carveUnique's removed
    idx,         \* carveUnique's idx
    visited,     \* the positions cells[0..idx-1]
    solution,    \* the filled grid carveUnique was handed
    probe        \* isSafe's arguments and its answer

vars == <<task, grid, start, pc, stack, ret, count, limit, gpc, difficulty,
          clues, toRemove, removed, idx, visited, solution, probe>>

genVars == <<gpc, difficulty, clues, toRemove, removed, idx, visited, solution>>

Counting == task = "countSolutions"

Top == stack[Len(stack)]

Pop == SubSeq(stack, 1, Len(stack) - 1)

\* ---------------------------------------------------------- search routines
\* The cutoff test with the comparison strict.
reachedStrict(n, lim) == n > lim

\* count >= limit, the cutoff of countSolutionsDFS.
reached(n, lim) == n >= lim

place(g, row, col, num) == [g EXCEPT ![row][col] = num]

\* The undo forgotten.
undoForgotten(g, row, col) == g

\* g[row][col] = UNASSIGNED after a failed (or counted) branch.
undo(g, row, col) == [g EXCEPT ![row][col] = UNASSIGNED]

\* The loop index not advanced.
consumeStuck(tried, num) == tried

\* ++i past the entry just used.
consume(tried, num) == tried \cup {num}

\* The first lines of solveSudoku, fillGrid and countSolutionsDFS, up to the
\* head of the loop.
Call ==
    /\ pc = "call"
    /\ IF Counting /\ reached(count, limit)
       THEN /\ pc' = "ret"
            /\ UNCHANGED <<stack, ret, count>>
       ELSE LET u == findUnassigned(grid) IN
            IF ~u.found
            THEN /\ pc' = "ret"
                 /\ IF Counting
                    THEN count' = count + 1 /\ ret' = ret
                    ELSE ret' = TRUE /\ count' = count
                 /\ stack' = stack
            ELSE /\ pc' = "loop"
                 /\ stack' = Append(stack, [row |-> u.row, col |-> u.col,
                                            tried |-> {}])
                 /\ UNCHANGED <<ret, count>>
    /\ UNCHANGED <<task, grid, start, limit, probe>>
    /\ UNCHANGED genVars

\* The loop reaches an entry that passes isSafe: place it and recurse.
Place ==
    /\ pc = "loop"
    /\ \E num \in nextDigits[safeDigits(grid, Top.row, Top.col), Top.tried] :
        /\ grid' = place(grid, Top.row, Top.col, num)
        /\ stack' = [stack EXCEPT ![Len(stack)].tried = consume(@, num)]
    /\ pc' = "call"
    /\ UNCHANGED <<task, start, ret, count, limit, probe>>
    /\ UNCHANGED genVars

\* The loop runs out: return false (countSolutionsDFS just returns).
Exhaust ==
    /\ pc = "loop"
    /\ loopDone[safeDigits(grid, Top.row, Top.col), Top.tried]
    /\ stack' = Pop
    /\ pc' = "ret"
    /\ ret' = (IF Counting THEN ret ELSE FALSE)
    /\ UNCHANGED <<task, grid, start, count, limit, probe>>
    /\ UNCHANGED genVars

\* The recursive call has returned into the loop body.
Resume ==
    /\ pc = "ret"
    /\ stack # <<>>
    /\ IF Counting
       THEN /\ grid' = undo(grid, Top.row, Top.col)
            /\ IF reached(count, limit)
               THEN stack' = Pop /\ pc' = "ret"
               ELSE stack' = stack /\ pc' = "loop"
       ELSE IF ret
            THEN grid' = grid /\ stack' = Pop /\ pc' = "ret"
            ELSE /\ grid' = undo(grid, Top.row, Top.col)
                 /\ stack' = stack
                 /\ pc' = "loop"
    /\ UNCHANGED <<task, start, ret, count, limit, probe>>
    /\ UNCHANGED genVars

\* The outermost call has returned to its caller.
Returned == pc = "ret" /\ stack = <<>>

NoProbe == [row |-> 0, col |-> 0, num |-> 0, calls |-> 0, answer |-> FALSE]

GenIdle ==
    /\ gpc = "-"
    /\ difficulty = "-"
    /\ clues = 0
    /\ toRemove = 0
    /\ removed = 0
    /\ idx = 0
    /\ visited = {}
    /\ solution = EmptyGrid

\* solveSudoku(work), countSolutions(g, limit) or fillGrid(out) is called.
InitSearch ==
    /\ task \in {"solveSudoku", "countSolutions", "fillGrid"}
    /\ grid \in (IF task = "fillGrid" THEN {EmptyGrid} ELSE InputGrids)
    /\ start = grid
    /\ pc = "call"
    /\ stack = <<>>
    /\ ret = FALSE
    /\ count = 0
    /\ limit \in (IF task = "countSolutions" THEN 0..MaxLimit ELSE {0})
    /\ probe = NoProbe
    /\ GenIdle

NextSearch == Call \/ Place \/ Exhaust \/ Resume

SpecSearch == InitSearch /\ [][NextSearch]_vars

\* ------------------------------------------- countSolutions, as one result
\* countSolutionsDFS(g, count, limit) as a whole call: every value count can
\* have when the call returns, over the orders of boundedDigits at each
\* node.  countLoop is the loop of one node from the entries `tried` on.
RECURSIVE countSolutionsDFS(_, _, _), countLoop(_, _, _, _, _, _)
countSolutionsDFS(g, n, lim) ==
    IF reached(n, lim) THEN {n}
    ELSE LET u == findUnassigned(g) IN
         IF ~u.found THEN {n + 1}
         ELSE countLoop(g, u.row, u.col, {}, n, lim)

countLoop(g, row, col, tried, n, lim) ==
    LET safe == safeDigits(g, row, col) IN
    (IF doneBounded[safe, tried] THEN {n} ELSE {})
    \cup UNION {UNION {IF reached(m, lim) THEN {m}
                       ELSE countLoop(g, row, col, consume(tried, num), m, lim)
                       : m \in countSolutionsDFS(place(g, row, col, num), n, lim)}
                : num \in nextBounded[safe, tried]}

\* countSolutions(g, limit): the search runs on the copy tmp, from cnt = 0.
countSolutions(g, lim) == countSolutionsDFS(g, 0, lim)

\* --------------------------------------------------------------- generator
\* The numbers of generatePuzzle and carveUnique, written for 81 cells.
FullBoard == 81
EasyClues == 45
MediumClues == 34
HardClues == 24
ClueSpan == 6
UniqueLimit == 2

\* A clue count of the 81-cell board on the N x N board (k itself at N = 9).
scaled(k) == (k * Cells) \div FullBoard

\* The width of a clue range on the N x N board (ClueSpan itself at N = 9).
span == (ClueSpan * Cells + FullBoard - 1) \div FullBoard

Tokens == {"easy", "medium", "hard", "expert"}

\* The fallback branch taking the hard range.
clueFloorFallsHard(d) ==
    IF d = "easy" THEN scaled(EasyClues)
    ELSE IF d = "medium" THEN scaled(MediumClues)
    ELSE scaled(HardClues)

\* The lower end of the clue range of a difficulty token.
clueFloor(d) ==
    IF d = "easy" THEN scaled(EasyClues)
    ELSE IF d = "medium" THEN scaled(MediumClues)
    ELSE IF d = "hard" THEN scaled(HardClues)
    ELSE scaled(MediumClues)

\* clues = floor + rand() % 6.
clueChoices(d) == {clueFloor(d) + k : k \in 0..(span - 1)}

\* The loop test with <= for <.
carveCondOffByOne(i, rem, toRem) == i < Cells /\ rem <= toRem

\* idx < 81 && removed < toRemove.
carveCond(i, rem, toRem) == i < Cells /\ rem < toRem

\* Any solvable puzzle kept.
keepRemovedIfSolvable(solCount) == solCount >= 1

\* solCount == 1: the removal stays.
keepRemoved(solCount) == solCount = 1

\* The revert forgotten.
revertForgotten(g, r, c, backup) == g

\* g[r][c] = backup.
revert(g, r, c, backup) == [g EXCEPT ![r][c] = backup]

\* cells[idx]: the shuffle of carveUnique can leave any permutation of the
\* positions, so cells[idx] is a position not among cells[0..idx-1]; here
\* one of the CellDraws lowest of them.
cellDraws(seen) ==
    {p \in Positions \ seen :
        Cardinality({q \in Positions \ seen : q < p}) < CellDraws}

\* generatePuzzle after fillGrid(out) has returned: the retry, or the choice
\* of clues and the call of carveUnique up to the head of its loop.
FillReturn ==
    /\ task = "generatePuzzle"
    /\ gpc = "fillGrid"
    /\ Returned
    /\ IF ~ret
       THEN /\ grid' = EmptyGrid
            /\ pc' = "call"
            /\ UNCHANGED <<gpc, clues, toRemove, removed, idx, visited, solution>>
       ELSE /\ \E cl \in clueChoices(difficulty) :
                /\ clues' = cl
                /\ toRemove' = Cells - cl
            /\ removed' = 0
            /\ idx' = 0
            /\ visited' = {}
            /\ solution' = grid
            /\ gpc' = "carve"
            /\ UNCHANGED <<grid, pc>>
    /\ UNCHANGED <<task, start, stack, ret, count, limit, difficulty, probe>>

\* One iteration of carveUnique's loop.
CarveStep ==
    /\ gpc = "carve"
    /\ carveCond(idx, removed, toRemove)
    /\ \E pos \in cellDraws(visited) :
        LET r == pos \div N
            c == pos % N
        IN  /\ visited' = visited \cup {pos}
            /\ IF grid[r][c] = UNASSIGNED
               THEN UNCHANGED <<grid, removed>>
               ELSE LET backup == grid[r][c]
                        cleared == [grid EXCEPT ![r][c] = UNASSIGNED]
                    IN  \E solCount \in countSolutions(cleared, UniqueLimit) :
                            IF keepRemoved(solCount)
                            THEN grid' = cleared /\ removed' = removed + 1
                            ELSE /\ grid' = revert(cleared, r, c, backup)
                                 /\ removed' = removed
    /\ idx' = idx + 1
    /\ UNCHANGED <<task, start, pc, stack, ret, count, limit, gpc, difficulty,
                   clues, toRemove, solution, probe>>

\* The loop test fails: carveUnique and generatePuzzle return.
CarveExit ==
    /\ gpc = "carve"
    /\ ~carveCond(idx, removed, toRemove)
    /\ gpc' = "return"
    /\ UNCHANGED <<task, grid, start, pc, stack, ret, count, limit, difficulty,
                   clues, toRemove, removed, idx, visited, solution, probe>>

\* --------------------------------------------------- what the claims speak of
RowUnit(r) == {<<r, c>> : c \in Index}

ColUnit(c) == {<<r, c>> : r \in Index}

BoxUnit(b) ==
    {rc \in Index \X Index :
        (rc[1] \div BoxSize) * BoxSize + (rc[2] \div BoxSize) = b}

Units == {RowUnit(r) : r \in Index} \cup {ColUnit(c) : c \in Index}
            \cup {BoxUnit(b) : b \in Index}

\* No nonzero digit twice in a row, a column or a box.
NoDup(g) ==
    \A U \in Units : \A p \in U, q \in U :
        (p # q /\ g[p[1]][p[2]] # UNASSIGNED) => g[p[1]][p[2]] # g[q[1]][q[2]]

\* Every row, column and box holds each digit (hence exactly once, no empty).
Solved(g) == \A U \in Units : {g[p[1]][p[2]] : p \in U} = Digits

EmptyCells(g) == {p \in Positions : g[p \div N][p % N] = UNASSIGNED}

Filled(g) == Cells - Cardinality(EmptyCells(g))

\* h keeps every filled cell of g.
Extends(h, g) ==
    \A r \in Index, c \in Index : g[r][c] # UNASSIGNED => h[r][c] = g[r][c]

RowPerms == {f \in [Index -> Digits] : \A a \in Index, b \in Index :
                                           a # b => f[a] # f[b]}

\* The boards whose first k rows are filled without a duplicate, the other
\* rows empty.
RECURSIVE rowsFilled(_)
rowsFilled(k) ==
    IF k = 0 THEN {EmptyGrid}
    ELSE {g \in {[p EXCEPT ![k - 1] = r] : p \in rowsFilled(k - 1), r \in RowPerms} :
             NoDup(g)}

\* Every solved board (the test has the set enumerated once, where it is
\* defined).
SolvedGrids ==
    LET S == rowsFilled(N)
    IN  IF Cardinality(S) = 0 THEN {} ELSE S

\* The full completions of g.
Completions(g) == {s \in SolvedGrids : Extends(s, g)}

Min2(a, b) == IF a <= b THEN a ELSE b

\* generatePuzzle(out, difficulty) is called: out is zeroed, fillGrid(out) is
\* about to run.
Init ==
    /\ task = "generatePuzzle"
    /\ difficulty \in Tokens
    /\ grid = EmptyGrid
    /\ start = EmptyGrid
    /\ pc = "call"
    /\ stack = <<>>
    /\ ret = FALSE
    /\ count = 0
    /\ limit = 0
    /\ gpc = "fillGrid"
    /\ clues = 0
    /\ toRemove = 0
    /\ removed = 0
    /\ idx = 0
    /\ visited = {}
    /\ solution = EmptyGrid
    /\ probe = NoProbe

Next == Call \/ Place \/ Exhaust \/ Resume \/ FillReturn \/ CarveStep \/ CarveExit

Spec == Init /\ [][Next]_vars

\* isSafe(g, row, col, num) is called, for the first time or again.
IsSafeCall ==
    /\ task = "isSafe"
    /\ \E row \in Index, col \in Index, num \in Digits :
        probe' = [row |-> row, col |-> col, num |-> num,
                  calls |-> IF probe.calls = 0 THEN 1 ELSE 2,
                  answer |-> isSafe(grid, row, col, num)]
    /\ UNCHANGED <<task, grid, start, pc, stack, ret, count, limit>>
    /\ UNCHANGED genVars

InitSafe ==
    /\ task = "isSafe"
    /\ grid \in ProbeGrids
    /\ start = grid
    /\ pc = "-"
    /\ stack = <<>>
    /\ ret = FALSE
    /\ count = 0
    /\ limit = 0
    /\ probe = NoProbe
    /\ GenIdle

SpecSafe == InitSafe /\ [][IsSafeCall]_vars

\* Every entry point: generatePuzzle, the search routines on their own, and
\* isSafe.
InitAll == Init \/ InitSearch

SpecAll == InitAll /\ [][Next]_vars

\* ------------------------------------------------------------------ claims
\* The cells the search has written: empty at the start, filled now.
Written == {p \in EmptyCells(start) : grid[p \div N][p % N] # UNASSIGNED}

FramePos(k) == stack[k].row * N + stack[k].col

\* C4 as stated: for EVERY input grid solveSudoku returns true with a full
\* valid completion that keeps the filled cells, or false with the grid as it
\* was, and false only if the input has no completion.
SolveContractAnyGrid ==
    (task = "solveSudoku" /\ Returned) =>
        IF ret
        THEN Solved(grid) /\ Extends(grid, start)
        ELSE grid = start /\ Completions(start) = {}

\* C4 amended: the same for every input grid whose filled cells hold no
\* row, column or box duplicate.
SolveContract ==
    (task = "solveSudoku" /\ Returned /\ NoDup(start)) =>
        IF ret
        THEN Solved(grid) /\ Extends(grid, start)
        ELSE grid = start /\ Completions(start) = {}

\* C4's case: a duplicate-free grid with no completion, on which the search
\* placed digits, came back false.
SolveContractWitness ==
    /\ task = "solveSudoku" /\ Returned /\ ~ret
    /\ NoDup(start)
    /\ LET u == findUnassigned(start)
       IN  u.found /\ safeDigits(start, u.row, u.col) # {}

\* C5: on a duplicate-free grid the running count never exceeds limit, and
\* countSolutions returns min(number of completions, limit) whatever the
\* digit orders (so 0, 1 or 2 for limit = 2).
CountContract ==
    (task = "countSolutions" /\ NoDup(start)) =>
        /\ count <= limit
        /\ Returned =>
            /\ count = Min2(Cardinality(Completions(start)), limit)
            /\ countSolutions(start, limit) = {count}
            /\ limit = 2 => count \in {0, 1, 2}

\* C5's case: the count was cut off at limit = 2 on a grid with more
\* completions than that.
CountContractWitness ==
    /\ task = "countSolutions" /\ Returned /\ NoDup(start)
    /\ limit = 2 /\ count = 2
    /\ Cardinality(Completions(start)) > 2

\* C7: from the all-zero grid fillGrid returns true, whatever the digit
\* orders, and leaves a grid with no empty cell and each digit exactly once
\* in every row, column and box.
FillContract ==
    (task = "fillGrid" /\ Returned) =>
        /\ ret
        /\ EmptyCells(grid) = {}
        /\ Solved(grid)

\* C7's case: fillGrid has returned a board that no ascending order gives.
FillContractWitness ==
    /\ task = "fillGrid" /\ Returned /\ start = EmptyGrid
    /\ grid[0][0] = N /\ grid[N - 1][N - 1] = 1

\* C8: from a duplicate-free grid, every state of solveSudoku, fillGrid and
\* countSolutionsDFS is duplicate-free, the cells filled at the start keep
\* their digits, and the cells written are cells that were empty at the
\* start, taken in row-major order: each call's cell is the first empty one,
\* so the written cells are a row-major prefix of the empty ones.
SearchInvariant ==
    NoDup(start) =>
        /\ NoDup(grid)
        /\ Extends(grid, start)
        /\ \A p \in Written, q \in EmptyCells(start) : q < p => q \in Written
        /\ \A k \in 1..Len(stack) :
            /\ FramePos(k) \in EmptyCells(start)
            /\ \A q \in EmptyCells(start) : q < FramePos(k) => q \in Written
            /\ (k < Len(stack) \/ pc # "loop") <=> FramePos(k) \in Written
        /\ Len(stack) <= Cardinality(EmptyCells(start))

\* C8's case: a call two levels down is back at its loop after an undo.
SearchInvariantWitness ==
    /\ NoDup(start) /\ start # EmptyGrid
    /\ pc = "loop" /\ Len(stack) >= 2 /\ Top.tried # {}

\* The row, the column and the box of a cell.
UnitsOf(row, col) == {U \in Units : <<row, col>> \in U}

\* C6: isSafe(grid, row, col, digit) is true exactly when the cell is empty
\* and the digit is in no cell of the row, the column and the box of the
\* cell; the call leaves the grid as it is, and a call repeated on it gives
\* the same answer.
IsSafeContract ==
    /\ [](probe.calls >= 1 =>
            (probe.answer <=>
                /\ grid[probe.row][probe.col] = UNASSIGNED
                /\ \A U \in UnitsOf(probe.row, probe.col) : \A p \in U :
                       grid[p[1]][p[2]] # probe.num))
    /\ [][/\ grid' = grid
          /\ (probe.calls >= 1 /\ probe'.row = probe.row
                /\ probe'.col = probe.col /\ probe'.num = probe.num)
             => probe'.answer = probe.answer]_vars

\* C6's case: a digit refused for the box alone (the cell is empty, its row
\* and its column do not hold the digit), on a repeated call.
IsSafeContractWitness ==
    /\ probe.calls = 2 /\ ~probe.answer
    /\ grid[probe.row][probe.col] = UNASSIGNED
    /\ \A k \in Index : /\ grid[probe.row][k] # probe.num
                        /\ grid[k][probe.col] # probe.num

\* C1: the grid generatePuzzle returns has exactly one completion, and
\* countSolutions(puzzle, 2) is 1.
PuzzleUnique ==
    gpc = "return" =>
        /\ countSolutions(grid, UniqueLimit) = {1}
        /\ Completions(grid) = {solution}

\* C1's case: a hard puzzle returned with every requested cell removed.
PuzzleUniqueWitness ==
    /\ gpc = "return" /\ difficulty = "hard"
    /\ removed = toRemove /\ removed > 0

\* C2 as stated: "hard" yields a number of filled cells in the hard range
\* ([24,29] on 81 cells), an unrecognized token one in the medium range
\* ([34,39]).
ClueRangeExact ==
    gpc = "return" =>
        /\ difficulty = "hard" =>
              Filled(grid) \in scaled(HardClues)..(scaled(HardClues) + span - 1)
        /\ difficulty = "expert" =>
              Filled(grid) \in scaled(MediumClues)..(scaled(MediumClues) + span - 1)

\* C2 amended: "hard" yields at least the lower end of the hard range, an
\* unrecognized token at least the lower end of the medium range, and the
\* number of filled cells is above the range's upper end only if carveUnique
\* visited every position without removing toRemove cells.
ClueRangeUnlessExhausted ==
    gpc = "return" =>
        /\ difficulty = "hard" =>
              /\ clues \in scaled(HardClues)..(scaled(HardClues) + span - 1)
              /\ Filled(grid) >= scaled(HardClues)
              /\ Filled(grid) > scaled(HardClues) + span - 1 =>
                    idx = Cells /\ removed < toRemove
        /\ difficulty = "expert" =>
              /\ clues \in scaled(MediumClues)..(scaled(MediumClues) + span - 1)
              /\ Filled(grid) >= scaled(MediumClues)
              /\ Filled(grid) > scaled(MediumClues) + span - 1 =>
                    idx = Cells /\ removed < toRemove

\* C2's case: a hard puzzle returned with more filled cells than the range.
ClueRangeWitness ==
    /\ gpc = "return" /\ difficulty = "hard"
    /\ Filled(grid) > scaled(HardClues) + span - 1

\* C3: carveUnique never clears more than toRemove cells and stops as soon
\* as removed = toRemove; the returned puzzle has at least `clues` filled
\* cells, and more than that only when every position was visited.
CarveBound ==
    /\ [](gpc \in {"carve", "return"} =>
            /\ removed <= toRemove
            /\ Cardinality(EmptyCells(grid)) <= toRemove
            /\ gpc = "return" =>
                  /\ Filled(grid) >= clues
                  /\ clues >= clueFloor(difficulty)
                  /\ Filled(grid) > clues => idx = Cells)
    /\ [][(gpc = "carve" /\ removed = toRemove) =>
              (grid' = grid /\ idx' = idx /\ removed' = removed)]_vars

\* C3's case: the permutation ran out before toRemove cells were removed.
CarveBoundWitness ==
    /\ gpc = "return" /\ idx = Cells
    /\ Filled(grid) > clues

\* C9: in carveUnique every cell is empty or as in the solved grid, the
\* number of empty cells is removed, a rejected removal leaves the grid as
\* it was, and an iteration changes no cell but the one it visits.
CarveFrame ==
    /\ [](gpc \in {"carve", "return"} =>
            /\ \A r \in Index, c \in Index :
                  grid[r][c] = UNASSIGNED \/ grid[r][c] = solution[r][c]
            /\ Cardinality(EmptyCells(grid)) = removed
            /\ Solved(solution))
    /\ [][gpc = "carve" =>
              /\ removed' = removed => grid' = grid
              /\ \A p \in Positions \ (visited' \ visited) :
                    grid'[p \div N][p % N] = grid[p \div N][p % N]]_vars

\* C9's case: carving has kept some removals and rejected others.
CarveFrameWitness ==
    /\ gpc = "carve" /\ removed > 0 /\ idx > removed + 1

\* The measure of termination.  Rank is a tuple that every step lowers in the
\* lexicographic order: the phase of generatePuzzle, then per search depth
\* the loop entries left (a call not yet at its loop counts highest), then
\* the carving iterations left.
FrameRank(k) ==
    IF k <= Len(stack)
    THEN 2 * (N - Cardinality(stack[k].tried)) + 1
            + (IF k < Len(stack) \/ pc # "loop" THEN 1 ELSE 0)
    ELSE IF k = Len(stack) + 1 /\ pc = "call" THEN 2 * N + 3
    ELSE 0

Rank ==
    [k \in 0..(Cells + 2) |->
        IF k = 0 THEN (IF gpc = "fillGrid" THEN 2 ELSE IF gpc = "carve" THEN 1 ELSE 0)
        ELSE IF k = Cells + 2 THEN (IF gpc = "carve" THEN Cells - idx ELSE 0)
        ELSE FrameRank(k)]

LexLess(a, b) ==
    \E k \in DOMAIN a :
        /\ a[k] < b[k]
        /\ \A j \in DOMAIN a : j < k => a[j] = b[j]

Terminated == IF task = "generatePuzzle" THEN gpc = "return" ELSE Returned

\* The carving loop can take its next iteration.
CarveStepReady ==
    /\ gpc = "carve"
    /\ carveCond(idx, removed, toRemove)
    /\ \E pos \in cellDraws(visited) :
          \/ grid[pos \div N][pos % N] = UNASSIGNED
          \/ countSolutions([grid EXCEPT ![pos \div N][pos % N] = UNASSIGNED],
                            UniqueLimit) # {}

\* C10: generatePuzzle returns whatever the token and the random choices:
\* the retry after a failed fillGrid is never taken, every search ends with
\* a recursion depth of at most the number of cells empty at its start, and
\* the carving loop runs at most Cells (81) iterations.
Termination ==
    /\ [][LexLess(Rank', Rank)]_vars
    /\ [](\/ Terminated
          \/ CarveStepReady
          \/ ENABLED (Call \/ Place \/ Exhaust \/ Resume \/ FillReturn \/ CarveExit))
    /\ []((task = "generatePuzzle" /\ gpc = "fillGrid" /\ Returned) => ret)
    /\ [](Len(stack) <= Cardinality(EmptyCells(start)))
    /\ [](Len(stack) <= Cells /\ idx <= Cells)

\* C10's case: generatePuzzle has returned after a full carving loop.
TerminationWitness ==
    /\ task = "generatePuzzle" /\ gpc = "return"
    /\ idx = Cells /\ difficulty = "expert"

====
